---- MODULE Spec2Model ----
(***************************************************************************)
(* Model of the Spotify "recently played" ingestion Lambda.                *)
(*                                                                         *)
(* Two near-duplicate implementations exist in the repository:             *)
(*   get_spotify_api_data/lambda_function.py        (variant "api_data")   *)
(*   lambda_spotify_get_user_recent_played.py       (variant "recent")     *)
(* They differ in the storage key built by save_to_s3.                     *)
(*                                                                         *)
(* Python values (None, str, int, list, dict) are tagged records; a dict   *)
(* is an insertion-ordered sequence of <<key, value>> pairs.               *)
(***************************************************************************)
EXTENDS Integers, Sequences, FiniteSets, TLC

VARIABLES
    variant,             \* which of the two implementations is deployed
    RAW_S3_BUCKET_NAME,  \* os.getenv('RAW_S3_BUCKET_NAME'), read at import
    clock,               \* index into Dates: what datetime.now() shows
    s3,                  \* the object store: <<Bucket, Key>> -> object
    invocations,         \* number of invocations started so far
    pc,                  \* per invocation slot: position in lambda_handler
    today_date,          \* lambda_handler local
    access_token,        \* lambda_handler local
    recent_tracks,       \* lambda_handler local
    result,              \* value returned by lambda_handler
    calls,               \* per invocation: log of the external calls issued
    lastRun,             \* the most recently returned invocation: its date and
                         \* batch if it succeeded, NoRun if it failed
    prevRun              \* the same for the invocation returned before it

vars == <<variant, RAW_S3_BUCKET_NAME, clock, s3, invocations, pc, today_date,
          access_token, recent_tracks, result, calls, lastRun, prevRun>>

----------------------------------------------------------------------------
(* Bounds *)

NumProcs == 2
MaxInvocations == 2
MaxDays == 2

Procs == 1..NumProcs

TRACKS_LIMIT == 50

AWS_REGION == "eu-north-1"

DateNames == <<"2024-01-15", "2024-01-16", "2024-01-17", "2024-01-18">>

----------------------------------------------------------------------------
(* Python values *)

PyNone == [t |-> "none"]
PyStr(s) == [t |-> "str", s |-> s]
PyInt(n) == [t |-> "int", n |-> n]
PyList(el) == [t |-> "list", el |-> el]
PyDict(kv) == [t |-> "dict", kv |-> kv]

IsDict(v) == v.t = "dict"

Keys(d) == {d.kv[i][1] : i \in 1..Len(d.kv)}

Has(d, k) == IsDict(d) /\ k \in Keys(d)

Get(d, k) == d.kv[CHOOSE i \in 1..Len(d.kv) : d.kv[i][1] = k][2]

\* d[k] = v on a dict: replaces the value in place or appends the new key
SetItem(d, k, v) ==
    IF k \in Keys(d)
    THEN PyDict([i \in 1..Len(d.kv) |->
                   IF d.kv[i][1] = k THEN <<k, v>> ELSE d.kv[i]])
    ELSE PyDict(Append(d.kv, <<k, v>>))

\* str(v) as used by f-strings
Str(v) ==
    CASE v.t = "none" -> "None"
      [] v.t = "str" -> v.s
      [] v.t = "int" -> ToString(v.n)
      [] OTHER -> "<object>"

----------------------------------------------------------------------------
(* json.dumps *)

RECURSIVE Spaces(_)
Spaces(n) == IF n = 0 THEN "" ELSE " " \o Spaces(n - 1)

\* Escaping of a string body (ensure_ascii=True); the entries are the strings
\* of the model that hold a character json escapes.
EscapeString(s) ==
    CASE s = "Say \"Hi\"" -> "Say \\\"Hi\\\""
      [] OTHER -> s

RECURSIVE Encode(_, _, _, _)
RECURSIVE EncodeItems(_, _, _, _, _)

\* The members of a list or dict from position i on, separated as json does:
\* ", " without indent, "," newline and indentation with it.
EncodeItems(v, i, pretty, indent, level) ==
    LET n == IF v.t = "list" THEN Len(v.el) ELSE Len(v.kv)
        item == IF v.t = "list"
                THEN Encode(v.el[i], pretty, indent, level)
                ELSE "\"" \o EscapeString(v.kv[i][1]) \o "\": "
                     \o Encode(v.kv[i][2], pretty, indent, level)
        sep == IF pretty THEN ",\n" \o Spaces(indent * level) ELSE ", "
    IN IF i > n THEN ""
       ELSE IF i = n THEN item
       ELSE item \o sep \o EncodeItems(v, i + 1, pretty, indent, level)

Encode(v, pretty, indent, level) ==
    CASE v.t = "none" -> "null"
      [] v.t = "str" -> "\"" \o EscapeString(v.s) \o "\""
      [] v.t = "int" -> ToString(v.n)
      [] v.t \in {"list", "dict"} ->
            LET open == IF v.t = "list" THEN "[" ELSE "{"
                close == IF v.t = "list" THEN "]" ELSE "}"
                n == IF v.t = "list" THEN Len(v.el) ELSE Len(v.kv)
            IN IF n = 0 THEN open \o close
               ELSE IF pretty
               THEN open \o "\n" \o Spaces(indent * (level + 1))
                    \o EncodeItems(v, 1, pretty, indent, level + 1)
                    \o "\n" \o Spaces(indent * level) \o close
               ELSE open \o EncodeItems(v, 1, pretty, indent, level) \o close

\* json.dumps(v)
json_dumps(v) == Encode(v, FALSE, 0, 0)

\* json.dumps(v, indent=n)
json_dumps_indent(v, n) == Encode(v, TRUE, n, 0)

----------------------------------------------------------------------------
(* The JSON documents the two endpoints can answer with *)

TokenDoc ==
    PyDict(<< <<"access_token", PyStr("BQD-token")>>,
              <<"token_type", PyStr("Bearer")>>,
              <<"expires_in", PyInt(3600)>> >>)

\* a 200 answer whose access_token is itself a JSON object
DictTokenDoc ==
    PyDict(<< <<"access_token", PyDict(<< <<"value", PyStr("BQD-token")>> >>)>> >>)

DictTokenDoc200 ==
    PyDict(<< <<"access_token",
                PyDict(<< <<"statusCode", PyInt(200)>>, <<"body", PyStr("ok")>> >>)>> >>)

\* a 200 answer without the access_token field
NoTokenDoc == PyDict(<< <<"token_type", PyStr("Bearer")>> >>)

AuthErrorDoc == PyDict(<< <<"error", PyStr("invalid_grant")>> >>)

PlayEvent(name, played_at) ==
    PyDict(<< <<"track", PyDict(<< <<"name", PyStr(name)>> >>)>>,
              <<"played_at", PyStr(played_at)>>,
              <<"context", PyNone>> >>)

Batch2 ==
    PyDict(<< <<"items", PyList(<< PlayEvent("Never Gonna Give You Up", "2024-01-15T14:30:00.000Z"),
                                   PlayEvent("Say \"Hi\"", "2024-01-15T14:25:00.000Z") >>)>>,
              <<"limit", PyInt(TRACKS_LIMIT)>> >>)

BatchEmpty == PyDict(<< <<"items", PyList(<< >>)>>, <<"limit", PyInt(TRACKS_LIMIT)>> >>)

BatchNoItems == PyDict(<< <<"href", PyStr("https://api.spotify.com/v1/me/player/recently-played")>> >>)

\* a body that is valid JSON but not an object
BatchList == PyList(<< >>)

ApiErrorDoc == PyDict(<< <<"error", PyStr("The access token expired")>> >>)

JsonDocuments ==
    {TokenDoc, DictTokenDoc, DictTokenDoc200, NoTokenDoc, AuthErrorDoc,
     Batch2, BatchEmpty, BatchNoItems, BatchList, ApiErrorDoc}

NotJson == [t |-> "invalid"]

\* json.loads on the texts of the model: the document whose rendering the text
\* is, NotJson for any other text.
json_loads(text) ==
    IF \E v \in JsonDocuments : json_dumps(v) = text
    THEN CHOOSE v \in JsonDocuments : json_dumps(v) = text
    ELSE NotJson

----------------------------------------------------------------------------
(* Outcomes of the HTTP calls, as requests reports them *)

Response(status, text) == [kind |-> "response", status_code |-> status, text |-> text]

RequestException(msg) == [kind |-> "RequestException", msg |-> msg]

TokenOutcomes ==
    { Response(200, json_dumps(TokenDoc)),
      Response(200, json_dumps(DictTokenDoc)),
      Response(200, json_dumps(DictTokenDoc200)),
      Response(200, json_dumps(NoTokenDoc)),
      Response(200, "<html>gateway</html>"),
      Response(201, json_dumps(TokenDoc)),
      Response(400, json_dumps(AuthErrorDoc)),
      Response(503, "Service Unavailable"),
      RequestException("Read timed out. (read timeout=10)") }

FetchOutcomes ==
    { Response(200, json_dumps(Batch2)),
      Response(200, json_dumps(BatchEmpty)),
      Response(200, json_dumps(BatchNoItems)),
      Response(200, json_dumps(BatchList)),
      Response(200, "<html>gateway</html>"),
      Response(204, ""),
      Response(302, json_dumps(BatchNoItems)),
      Response(304, ""),
      Response(401, json_dumps(ApiErrorDoc)),
      Response(500, "Internal Server Error"),
      RequestException("Read timed out. (read timeout=10)") }

\* Outcomes of a function call: a returned value or a raised exception
Return(v) == [kind |-> "return", value |-> v]
Raise(type, msg) == [kind |-> "raise", type |-> type, msg |-> msg]

\* resp.json(): the parsed body, or a JSONDecodeError.  Recent versions of
\* requests raise requests.exceptions.JSONDecodeError, a RequestException;
\* older ones let the json module's ValueError through (legacy).
response_json(resp, legacy) ==
    IF json_loads(resp.text) = NotJson
    THEN Raise(IF legacy THEN "ValueError" ELSE "RequestException",
               "Expecting value: line 1 column 1 (char 0)")
    ELSE Return(json_loads(resp.text))

\* raise_for_status as it would be if only server errors were checked
raise_for_status_5xx_only(resp) ==
    IF 500 <= resp.status_code /\ resp.status_code < 600
    THEN [kind |-> "raise", type |-> "RequestException",
          msg |-> ToString(resp.status_code) \o " Server Error"]
    ELSE [kind |-> "return", value |-> PyNone]

\* resp.raise_for_status(): HTTPError for 4xx and 5xx, nothing otherwise
raise_for_status(resp) ==
    IF 400 <= resp.status_code /\ resp.status_code < 500
    THEN Raise("RequestException", ToString(resp.status_code) \o " Client Error")
    ELSE IF 500 <= resp.status_code /\ resp.status_code < 600
    THEN Raise("RequestException", ToString(resp.status_code) \o " Server Error")
    ELSE Return(PyNone)

ErrorResponse(status, body) ==
    PyDict(<< <<"statusCode", PyInt(status)>>, <<"body", PyStr(body)>> >>)

----------------------------------------------------------------------------
(* get_spotify_token *)

\* get_spotify_token as it would be if every failure were reported as 500
get_spotify_token_always_500(outcome, legacy) ==
    IF outcome.kind = "RequestException"
    THEN Return(ErrorResponse(500, "Request failed: " \o outcome.msg))
    ELSE IF outcome.status_code = 200
    THEN LET auth_data == response_json(outcome, legacy)
         IN IF auth_data.kind = "raise"
            THEN IF auth_data.type = "RequestException"
                 THEN Return(ErrorResponse(500, "Request failed: " \o auth_data.msg))
                 ELSE auth_data
            ELSE IF ~IsDict(auth_data.value)
            THEN Raise("TypeError", "list indices must be integers or slices, not str")
            ELSE IF ~Has(auth_data.value, "access_token")
            THEN Raise("KeyError", "'access_token'")
            ELSE Return(Get(auth_data.value, "access_token"))
    ELSE Return(ErrorResponse(500, outcome.text))

get_spotify_token(outcome, legacy) ==
    IF outcome.kind = "RequestException"
    THEN Return(ErrorResponse(500, "Request failed: " \o outcome.msg))
    ELSE IF outcome.status_code = 200
    THEN LET auth_data == response_json(outcome, legacy)
         IN IF auth_data.kind = "raise"
            THEN IF auth_data.type = "RequestException"
                 THEN Return(ErrorResponse(500, "Request failed: " \o auth_data.msg))
                 ELSE auth_data
            ELSE IF ~IsDict(auth_data.value)
            THEN Raise("TypeError", "list indices must be integers or slices, not str")
            ELSE IF ~Has(auth_data.value, "access_token")
            THEN Raise("KeyError", "'access_token'")
            ELSE Return(Get(auth_data.value, "access_token"))
    ELSE Return(ErrorResponse(outcome.status_code, outcome.text))

----------------------------------------------------------------------------
(* get_recent_tracks *)

get_recent_tracks(token, outcome, legacy) ==
    IF outcome.kind = "RequestException"
    THEN Raise("Exception", "Failed to fetch recent tracks: " \o outcome.msg)
    ELSE LET checked == raise_for_status(outcome)
             body == response_json(outcome, legacy)
         IN IF checked.kind = "raise"
            THEN Raise("Exception", "Failed to fetch recent tracks: " \o checked.msg)
            ELSE IF body.kind = "raise"
            THEN IF body.type = "RequestException"
                 THEN Raise("Exception", "Failed to fetch recent tracks: " \o body.msg)
                 ELSE body
            ELSE body

----------------------------------------------------------------------------
(* The object store and save_to_s3 *)

BucketNames == {PyNone, PyStr(""), PyStr("spotify-raw-data")}

\* what a put_object with well-formed parameters can end in
PutOutcomes == {"ok", "NoSuchBucket", "EndpointConnectionError"}

\* botocore validates the parameters before any request is sent: Bucket must
\* be a string, and a bucket name has at least one character
ValidBucketParam(Bucket) == Bucket.t = "str" /\ Bucket.s # ""

Put(store, id, obj) ==
    [k \in DOMAIN store \cup {id} |-> IF k = id THEN obj ELSE store[k]]

\* s3.put_object(Bucket=, Key=, Body=, ContentType=): the store afterwards
\* and the exception raised, if any
put_object(store, Bucket, Key, Body, ContentType, outcome) ==
    IF ~ValidBucketParam(Bucket)
    THEN [kind |-> "raise", msg |-> "Parameter validation failed: Bucket", s3 |-> store]
    ELSE IF outcome # "ok"
    THEN [kind |-> "raise", msg |-> "An error occurred (" \o outcome \o ")", s3 |-> store]
    ELSE [kind |-> "return", msg |-> "",
          s3 |-> Put(store, <<Bucket.s, Key>>, [Body |-> Body, ContentType |-> ContentType])]

\* get_spotify_api_data/lambda_function.py: key = f'{today_date}/{today_date}_recent_tracks.json'
key_api_data(date) == date \o "/" \o date \o "_recent_tracks.json"

\* lambda_spotify_get_user_recent_played.py: key = f'{today_date}/recent_tracks.json'
key_recent(date) == date \o "/recent_tracks.json"

storage_key(impl, date) ==
    IF impl = "api_data" THEN key_api_data(date) ELSE key_recent(date)

\* the body as it would be without indent=2
object_body_compact(data) == json_dumps(data)

\* Body=json.dumps(data, indent=2)
object_body(data) == json_dumps_indent(data, 2)

\* save_to_s3 as it would be if the except clause did not re-raise
save_to_s3_swallow(store, impl, bucket, data, date, outcome) ==
    LET key == storage_key(impl, date)
        put == put_object(store, bucket, key, object_body(data), "application/json", outcome)
    IN [kind |-> "return",
        value |-> ErrorResponse(200, "Data saved to s3://" \o Str(bucket) \o "/" \o key),
        s3 |-> put.s3]

\* save_to_s3 as it would be if it left an object that exists already alone
save_to_s3_keep_first(store, impl, bucket, data, date, outcome) ==
    LET key == storage_key(impl, date)
        exists == bucket.t = "str" /\ <<bucket.s, key>> \in DOMAIN store
        put == IF exists
               THEN [kind |-> "return", msg |-> "", s3 |-> store]
               ELSE put_object(store, bucket, key, object_body(data), "application/json", outcome)
    IN IF put.kind = "raise"
       THEN [kind |-> "raise", type |-> "Exception",
             msg |-> "Failed to save to S3: " \o put.msg, s3 |-> put.s3]
       ELSE [kind |-> "return",
             value |-> ErrorResponse(200, "Data saved to s3://" \o Str(bucket) \o "/" \o key),
             s3 |-> put.s3]

\* save_to_s3 as it would be if it added to the day's object instead of
\* replacing it
save_to_s3_append(store, impl, bucket, data, date, outcome) ==
    LET key == storage_key(impl, date)
        exists == bucket.t = "str" /\ <<bucket.s, key>> \in DOMAIN store
        body == IF exists
                THEN store[<<bucket.s, key>>].Body \o "\n" \o object_body(data)
                ELSE object_body(data)
        put == put_object(store, bucket, key, body, "application/json", outcome)
    IN IF put.kind = "raise"
       THEN [kind |-> "raise", type |-> "Exception",
             msg |-> "Failed to save to S3: " \o put.msg, s3 |-> put.s3]
       ELSE [kind |-> "return",
             value |-> ErrorResponse(200, "Data saved to s3://" \o Str(bucket) \o "/" \o key),
             s3 |-> put.s3]

\* save_to_s3(data, today_date): the returned descriptor or the exception
\* raised, and the store afterwards
save_to_s3(store, impl, bucket, data, date, outcome) ==
    LET key == storage_key(impl, date)
        put == put_object(store, bucket, key, object_body(data), "application/json", outcome)
    IN IF put.kind = "raise"
       THEN [kind |-> "raise", type |-> "Exception",
             msg |-> "Failed to save to S3: " \o put.msg, s3 |-> put.s3]
       ELSE [kind |-> "return",
             value |-> ErrorResponse(200, "Data saved to s3://" \o Str(bucket) \o "/" \o key),
             s3 |-> put.s3]

----------------------------------------------------------------------------
(* lambda_handler *)

\* the count as it would be with len(recent_tracks)
tracks_count_of_batch(batch) ==
    IF IsDict(batch) THEN Return(PyInt(Len(batch.kv))) ELSE Return(PyInt(Len(batch.el)))

\* len(recent_tracks.get('items', []))
tracks_count(batch) ==
    IF ~IsDict(batch)
    THEN Raise("AttributeError", "'list' object has no attribute 'get'")
    ELSE LET items == IF Has(batch, "items") THEN Get(batch, "items") ELSE PyList(<< >>)
         IN CASE items.t = "list" -> Return(PyInt(Len(items.el)))
              [] items.t = "dict" -> Return(PyInt(Len(items.kv)))
              [] items.t = "str" -> Return(PyInt(Len(items.s)))
              [] OTHER -> Raise("TypeError", "object has no len()")

\* result['metadata'] = {'date': ..., 'tracks_count': ..., 'bucket': ...}
add_metadata(res, date, batch, bucket) ==
    LET n == tracks_count(batch)
    IN IF n.kind = "raise" THEN n
       ELSE Return(SetItem(res, "metadata",
                PyDict(<< <<"date", PyStr(date)>>,
                          <<"tracks_count", n.value>>,
                          <<"bucket", bucket>> >>)))

\* except Exception as e: return {'statusCode': 500, 'body': json.dumps({'error': str(e)})}
handler_error(msg) ==
    ErrorResponse(500, json_dumps(PyDict(<< <<"error", PyStr(msg)>> >>)))

ReturnPoints == {"return_error_response", "return_exception", "return_result"}

\* where lambda_handler goes after get_spotify_token: to the catch-all if it
\* raised, out with the value if isinstance(access_token, dict), on otherwise
after_token(r) ==
    IF r.kind = "raise" THEN "return_exception"
    ELSE IF IsDict(r.value) THEN "return_error_response"
    ELSE "fetch"

\* the step after get_recent_tracks as it would be with a retry on failure
after_fetch_retry(r) ==
    IF r.kind = "raise" THEN "fetch" ELSE "save"

\* where lambda_handler goes after get_recent_tracks
after_fetch(r) ==
    IF r.kind = "raise" THEN "return_exception" ELSE "save"

NoRun == [ok |-> FALSE, date |-> "", batch |-> PyNone]

Init ==
    /\ variant \in {"api_data", "recent"}
    /\ RAW_S3_BUCKET_NAME \in BucketNames
    /\ clock = 1
    /\ s3 = << >>
    /\ invocations = 0
    /\ pc = [p \in Procs |-> "idle"]
    /\ today_date = [p \in Procs |-> ""]
    /\ access_token = [p \in Procs |-> PyNone]
    /\ recent_tracks = [p \in Procs |-> PyNone]
    /\ result = [p \in Procs |-> PyNone]
    /\ calls = [p \in Procs |-> << >>]
    /\ lastRun = NoRun
    /\ prevRun = NoRun

\* the handler returns: its position, its result, and the record of the run
Returns(p, at, res) ==
    /\ pc' = [pc EXCEPT ![p] = at]
    /\ result' = [result EXCEPT ![p] = res]
    /\ prevRun' = lastRun
    /\ lastRun' = IF at = "return_result"
                  THEN [ok |-> TRUE, date |-> today_date[p], batch |-> recent_tracks'[p]]
                  ELSE NoRun

\* The platform starts lambda_handler; runs do not overlap.
\* today_date = datetime.now().strftime("%Y-%m-%d")
Invoke(p) ==
    /\ \A q \in Procs : pc[q] = "idle"
    /\ invocations < MaxInvocations
    /\ invocations' = invocations + 1
    /\ pc' = [pc EXCEPT ![p] = "token"]
    /\ today_date' = [today_date EXCEPT ![p] = DateNames[clock]]
    /\ UNCHANGED <<variant, RAW_S3_BUCKET_NAME, clock, s3, access_token,
                   recent_tracks, result, calls, lastRun, prevRun>>

\* access_token = get_spotify_token(); if isinstance(access_token, dict): return it
TokenStep(p) ==
    /\ pc[p] = "token"
    /\ \E outcome \in TokenOutcomes, legacy \in BOOLEAN :
         LET r == get_spotify_token(outcome, legacy)
         IN /\ calls' = [calls EXCEPT ![p] = Append(@, [op |-> "token", outcome |-> outcome])]
            /\ recent_tracks' = recent_tracks
            /\ access_token' = IF r.kind = "raise" THEN access_token
                               ELSE [access_token EXCEPT ![p] = r.value]
            /\ CASE after_token(r) = "return_exception" ->
                      Returns(p, "return_exception", handler_error(r.msg))
                 [] after_token(r) = "return_error_response" ->
                      Returns(p, "return_error_response", r.value)
                 [] OTHER ->
                      /\ pc' = [pc EXCEPT ![p] = after_token(r)]
                      /\ UNCHANGED <<result, lastRun, prevRun>>
    /\ UNCHANGED <<variant, RAW_S3_BUCKET_NAME, clock, s3, invocations, today_date>>

\* recent_tracks = get_recent_tracks(access_token)
FetchStep(p) ==
    /\ pc[p] = "fetch"
    /\ \E outcome \in FetchOutcomes, legacy \in BOOLEAN :
         LET r == get_recent_tracks(access_token[p], outcome, legacy)
         IN /\ calls' = [calls EXCEPT ![p] =
                           Append(@, [op |-> "fetch",
                                      authorization |-> "Bearer " \o Str(access_token[p]),
                                      outcome |-> outcome])]
            /\ recent_tracks' = IF r.kind = "raise" THEN recent_tracks
                                ELSE [recent_tracks EXCEPT ![p] = r.value]
            /\ IF after_fetch(r) = "return_exception"
               THEN Returns(p, "return_exception", handler_error(r.msg))
               ELSE /\ pc' = [pc EXCEPT ![p] = after_fetch(r)]
                    /\ UNCHANGED <<result, lastRun, prevRun>>
    /\ UNCHANGED <<variant, RAW_S3_BUCKET_NAME, clock, s3, invocations,
                   today_date, access_token>>

\* result = save_to_s3(recent_tracks, today_date); result['metadata'] = ...;
\* return result
SaveStep(p) ==
    /\ pc[p] = "save"
    /\ \E outcome \in PutOutcomes :
         LET r == save_to_s3(s3, variant, RAW_S3_BUCKET_NAME, recent_tracks[p],
                             today_date[p], outcome)
             m == add_metadata(r.value, today_date[p], recent_tracks[p], RAW_S3_BUCKET_NAME)
         IN /\ s3' = r.s3
            /\ calls' = [calls EXCEPT ![p] =
                           Append(@, [op |-> "put",
                                      Bucket |-> RAW_S3_BUCKET_NAME,
                                      Key |-> storage_key(variant, today_date[p]),
                                      Body |-> object_body(recent_tracks[p]),
                                      outcome |-> outcome,
                                      ok |-> r.kind = "return",
                                      descriptor |-> IF r.kind = "return"
                                                     THEN r.value ELSE PyNone])]
            /\ recent_tracks' = recent_tracks
            /\ IF r.kind = "raise"
               THEN Returns(p, "return_exception", handler_error(r.msg))
               ELSE IF m.kind = "raise"
               THEN Returns(p, "return_exception", handler_error(m.msg))
               ELSE Returns(p, "return_result", m.value)
    /\ UNCHANGED <<variant, RAW_S3_BUCKET_NAME, clock, invocations, today_date,
                   access_token>>

\* The platform has delivered the result; the slot is free again.
Deliver(p) ==
    /\ pc[p] \in ReturnPoints
    /\ pc' = [pc EXCEPT ![p] = "idle"]
    /\ today_date' = [today_date EXCEPT ![p] = ""]
    /\ access_token' = [access_token EXCEPT ![p] = PyNone]
    /\ recent_tracks' = [recent_tracks EXCEPT ![p] = PyNone]
    /\ result' = [result EXCEPT ![p] = PyNone]
    /\ calls' = [calls EXCEPT ![p] = << >>]
    /\ UNCHANGED <<variant, RAW_S3_BUCKET_NAME, clock, s3, invocations, lastRun, prevRun>>

\* Midnight passes.
Tick ==
    /\ clock < MaxDays
    /\ clock' = clock + 1
    /\ UNCHANGED <<variant, RAW_S3_BUCKET_NAME, s3, invocations, pc, today_date,
                   access_token, recent_tracks, result, calls, lastRun, prevRun>>

Next ==
    \/ \E p \in Procs : Invoke(p)
    \/ \E p \in Procs : TokenStep(p)
    \/ \E p \in Procs : FetchStep(p)
    \/ \E p \in Procs : SaveStep(p)
    \/ \E p \in Procs : Deliver(p)
    \/ Tick

Spec == Init /\ [][Next]_vars

----------------------------------------------------------------------------
(* Observations used by the properties *)

Returned(p) == pc[p] \in ReturnPoints

\* the calls of kind op that invocation p has issued
CallsOf(p, op) == {i \in 1..Len(calls[p]) : calls[p][i].op = op}

\* invocation p has put an object into the store
Wrote(p) == \E i \in CallsOf(p, "put") : calls[p][i].ok

IsFailure(res) == ~(Has(res, "statusCode") /\ Get(res, "statusCode") = PyInt(200))

\* the token endpoint answered invocation p with an HTTP status other than 200
TokenNon200(p) ==
    /\ Len(calls[p]) >= 1
    /\ calls[p][1].outcome.kind = "response"
    /\ calls[p][1].outcome.status_code # 200

\* the activity endpoint answered invocation p with a status in statuses
FetchAnswered(p, statuses) ==
    /\ Len(calls[p]) >= 2
    /\ calls[p][2].outcome.kind = "response"
    /\ calls[p][2].outcome.status_code \in statuses

\* the messages of the exceptions get_recent_tracks can raise
FetchErrorMessages ==
    {get_recent_tracks(PyNone, o, legacy).msg :
        <<o, legacy>> \in {x \in FetchOutcomes \X BOOLEAN :
                              get_recent_tracks(PyNone, x[1], x[2]).kind = "raise"}}

\* body is the JSON text of an object whose one member is the string 'error'
IsJsonErrorBody(body) ==
    /\ body.t = "str"
    /\ \E m \in FetchErrorMessages : body.s = "{\"error\": \"" \o m \o "\"}"

----------------------------------------------------------------------------
(* C1 *)

\* C1: whatever the token request, the activity fetch and the S3 put end in,
\* the dict lambda_handler returns contains the key 'statusCode'.
C1_ResultHasStatusCode ==
    \A p \in Procs : Returned(p) => IsDict(result[p]) /\ Has(result[p], "statusCode")

----------------------------------------------------------------------------
(* C2 *)

\* C2: when the token endpoint answers with a status other than 200,
\* get_spotify_token returns the dict {statusCode: that status, body: the
\* response text}, lambda_handler returns that same dict, and neither
\* get_recent_tracks nor save_to_s3 is called.
C2_TokenFailureShortCircuits ==
    \A p \in Procs :
        TokenNon200(p) =>
            /\ pc[p] = "return_error_response"
            /\ access_token[p] = PyDict(<< <<"statusCode", PyInt(calls[p][1].outcome.status_code)>>,
                                           <<"body", PyStr(calls[p][1].outcome.text)>> >>)
            /\ result[p] = access_token[p]
            /\ Len(calls[p]) = 1
            /\ CallsOf(p, "fetch") = {} /\ CallsOf(p, "put") = {}

C2_Witness ==
    \E p \in Procs :
        /\ TokenNon200(p)
        /\ calls[p][1].outcome.status_code = 400
        /\ Returned(p)
        /\ Get(result[p], "statusCode") = PyInt(400)
        /\ Get(result[p], "body") = PyStr("{\"error\": \"invalid_grant\"}")

----------------------------------------------------------------------------
(* C3 *)

\* C3: an invocation that returns a failure result (statusCode other than
\* 200) has written no object to the store.
C3_FailureWritesNothing ==
    \A p \in Procs : Returned(p) /\ IsFailure(result[p]) => ~Wrote(p)

----------------------------------------------------------------------------
(* C4 *)

Non2xx == {s \in 100..599 : s < 200 \/ s >= 300}

ErrorStatuses == 400..599

FetchRejected(p) ==
    /\ pc[p] = "return_exception"
    /\ CallsOf(p, "put") = {}
    /\ ~Wrote(p)
    /\ Get(result[p], "statusCode") = PyInt(500)
    /\ IsJsonErrorBody(Get(result[p], "body"))

----------------------------------------------------------------------------
(* C5 *)

\* C5: after a successful run the object read back from the store is exactly
\* json.dumps(indent=2) of what the activity endpoint answered in that run.
C5_StoredIsPrettyPrintedBatch ==
    \A p \in Procs :
        pc[p] = "return_result" =>
            LET id == <<Str(RAW_S3_BUCKET_NAME), calls[p][3].Key>>
                fetched == json_loads(calls[p][2].outcome.text)
            IN /\ fetched # NotJson
               /\ fetched = recent_tracks[p]
               /\ id \in DOMAIN s3
               /\ s3[id].Body = json_dumps_indent(fetched, 2)

C5_Witness ==
    \E p \in Procs :
        /\ pc[p] = "return_result"
        /\ recent_tracks[p] = BatchEmpty
        /\ \E id \in DOMAIN s3 :
              s3[id].Body = "{\n  \"items\": [],\n  \"limit\": 50\n}"

----------------------------------------------------------------------------
(* C6 *)

\* C6: in each implementation, a successful save_to_s3 for the date d stores
\* the object in the configured bucket under '<d>/<d>_recent_tracks.json' and
\* returns statusCode 200 with a body naming that bucket and key.
C6_KeyIsDateSlashDateRecentTracks ==
    \A p \in Procs : \A i \in CallsOf(p, "put") :
        calls[p][i].ok =>
            LET d == today_date[p]
                key == d \o "/" \o d \o "_recent_tracks.json"
                bucket == Str(RAW_S3_BUCKET_NAME)
            IN /\ <<bucket, key>> \in DOMAIN s3
               /\ calls[p][i].descriptor =
                    PyDict(<< <<"statusCode", PyInt(200)>>,
                              <<"body", PyStr("Data saved to s3://" \o bucket \o "/" \o key)>> >>)

----------------------------------------------------------------------------
(* C7 *)

BucketUnset == RAW_S3_BUCKET_NAME \in {PyNone, PyStr("")}

\* C7: with RAW_S3_BUCKET_NAME unset or empty, every call of save_to_s3
\* raises instead of returning a success descriptor, and nothing is stored.
C7_MissingBucketRaises ==
    BucketUnset =>
        /\ s3 = << >>
        /\ \A p \in Procs : \A i \in CallsOf(p, "put") :
              /\ ~calls[p][i].ok
              /\ calls[p][i].descriptor = PyNone
              /\ pc[p] = "return_exception"
              /\ result[p] = ErrorResponse(500,
                    "{\"error\": \"Failed to save to S3: Parameter validation failed: Bucket\"}")

C7_Witness ==
    /\ RAW_S3_BUCKET_NAME = PyStr("")
    /\ \E p \in Procs : \E i \in CallsOf(p, "put") :
          /\ calls[p][i].outcome = "ok"
          /\ ~calls[p][i].ok
          /\ pc[p] = "return_exception"
    /\ s3 = << >>

----------------------------------------------------------------------------
(* C8 *)

\* the objects of the store that belong to the day date
DayObjects(date) == {id \in DOMAIN s3 : id[2] \in {key_api_data(date), key_recent(date)}}

\* invocation p has just returned success, and so had the run before it, on
\* the same day
SecondSuccessOfDay(p) ==
    /\ pc[p] = "return_result"
    /\ prevRun.ok
    /\ prevRun.date = today_date[p]

\* C8: after two successive successful runs on one day the store holds one
\* object for that day, the serialization of the second run's batch; the
\* first run's object has been overwritten.
C8_SecondRunOverwrites ==
    \A p \in Procs :
        SecondSuccessOfDay(p) =>
            /\ Cardinality(DayObjects(today_date[p])) = 1
            /\ \A id \in DayObjects(today_date[p]) :
                  /\ id[2] = calls[p][3].Key
                  /\ s3[id].Body = json_dumps_indent(recent_tracks[p], 2)
                  /\ prevRun.batch # recent_tracks[p] =>
                        s3[id].Body # json_dumps_indent(prevRun.batch, 2)

C8_Witness ==
    \E p \in Procs :
        /\ SecondSuccessOfDay(p)
        /\ prevRun.batch = Batch2
        /\ recent_tracks[p] = BatchEmpty
        /\ \A id \in DOMAIN s3 : s3[id].Body = "{\n  \"items\": [],\n  \"limit\": 50\n}"

----------------------------------------------------------------------------
(* C9 *)

CallOrder == <<"token", "fetch", "put">>

\* the token endpoint answered 200 with a body holding an access_token
TokenGranted(call) ==
    /\ call.outcome.kind = "response"
    /\ call.outcome.status_code = 200
    /\ Has(json_loads(call.outcome.text), "access_token")

\* the activity endpoint answered, not with an error status, a JSON body
FetchSucceeded(call) ==
    /\ call.outcome.kind = "response"
    /\ call.outcome.status_code \notin ErrorStatuses
    /\ json_loads(call.outcome.text) # NotJson

\* C9: in every invocation the external calls are issued at most once each
\* and in the order token, fetch, put; the fetch only after the token request
\* returned 200 with an access token, the put only after the fetch succeeded.
C9_CallsOnceInOrder ==
    \A p \in Procs :
        /\ Len(calls[p]) <= 3
        /\ \A i \in 1..Len(calls[p]) : calls[p][i].op = CallOrder[i]
        /\ Len(calls[p]) >= 2 => TokenGranted(calls[p][1])
        /\ Len(calls[p]) >= 3 => FetchSucceeded(calls[p][2])
        /\ pc[p] = "fetch" => Len(calls[p]) = 1
        /\ pc[p] = "save" => Len(calls[p]) = 2

C9_Witness ==
    \E p \in Procs :
        /\ Returned(p)
        /\ Len(calls[p]) = 3
        /\ ~calls[p][3].ok

----------------------------------------------------------------------------
(* C10 *)

\* C10: a successful lambda_handler returns the descriptor of save_to_s3
\* (statusCode 200) with 'metadata' added: 'date' is the date used in the key
\* of the object written in this run, 'tracks_count' the number of elements
\* of the batch's 'items' (0 without 'items'), 'bucket' the configured bucket.
C10_SuccessMetadata ==
    \A p \in Procs :
        pc[p] = "return_result" =>
            LET put == calls[p][3]
                meta == Get(result[p], "metadata")
                items == IF Has(recent_tracks[p], "items")
                         THEN Get(recent_tracks[p], "items").el ELSE << >>
            IN /\ put.ok
               /\ Keys(result[p]) = {"statusCode", "body", "metadata"}
               /\ Get(result[p], "statusCode") = PyInt(200)
               /\ Get(result[p], "statusCode") = Get(put.descriptor, "statusCode")
               /\ Get(result[p], "body") = Get(put.descriptor, "body")
               /\ Keys(meta) = {"date", "tracks_count", "bucket"}
               /\ Get(meta, "date").t = "str"
               /\ put.Key = storage_key(variant, Get(meta, "date").s)
               /\ <<Str(RAW_S3_BUCKET_NAME), put.Key>> \in DOMAIN s3
               /\ Get(meta, "tracks_count") = PyInt(Len(items))
               /\ Get(meta, "bucket") = RAW_S3_BUCKET_NAME

C10_Witness ==
    \E p \in Procs :
        /\ pc[p] = "return_result"
        /\ recent_tracks[p] = Batch2
        /\ today_date[p] = "2024-01-16"
        /\ Get(result[p], "metadata") =
              PyDict(<< <<"date", PyStr("2024-01-16")>>,
                        <<"tracks_count", PyInt(2)>>,
                        <<"bucket", PyStr("spotify-raw-data")>> >>)

----------------------------------------------------------------------------
(* Overlapping invocations *)

Running(p) == pc[p] \in {"token", "fetch", "save"}

\* the two slots whose invocations overlap
OverlapProcs == {1, 2}

\* The platform starts lambda_handler in the second slot while the invocation
\* of the first has not returned yet: the two invocations overlap in time.
\* Nothing in the code coordinates them.
InvokeOverlap(p) ==
    /\ p \in OverlapProcs
    /\ pc[p] = "idle"
    /\ \A q \in Procs : q < p => Running(q)
    /\ \A q \in Procs : q > p => pc[q] = "idle"
    /\ invocations < MaxInvocations
    /\ invocations' = invocations + 1
    /\ pc' = [pc EXCEPT ![p] = "token"]
    /\ today_date' = [today_date EXCEPT ![p] = DateNames[clock]]
    /\ UNCHANGED <<variant, RAW_S3_BUCKET_NAME, clock, s3, access_token,
                   recent_tracks, result, calls, lastRun, prevRun>>

NextOverlap ==
    \/ \E p \in Procs : InvokeOverlap(p)
    \/ \E p \in Procs : TokenStep(p)
    \/ \E p \in Procs : FetchStep(p)
    \/ \E p \in Procs : SaveStep(p)
    \/ Tick

SpecOverlap == Init /\ [][NextOverlap]_vars

----------------------------------------------------------------------------
(* C11 *)

\* p and q are two invocations of the same day that both returned success,
\* and no other invocation has written an object for that day
BothSucceeded(p, q) ==
    /\ p # q
    /\ pc[p] = "return_result" /\ pc[q] = "return_result"
    /\ today_date[p] = today_date[q]
    /\ \A r \in Procs \ {p, q} : ~(Wrote(r) /\ today_date[r] = today_date[p])

\* C11: when two overlapping invocations of one day both succeed, under every
\* interleaving of their steps the store ends with exactly one object at the
\* day's key, and its body is the whole serialization of the batch of one of
\* the two runs, the one whose put came last, never a mixture.
C11_OverlapLastPutWins ==
    \A p, q \in Procs :
        BothSucceeded(p, q) =>
            LET d == today_date[p]
            IN /\ Cardinality(DayObjects(d)) = 1
               /\ \A id \in DayObjects(d) :
                     /\ id[2] = calls[p][3].Key /\ id[2] = calls[q][3].Key
                     /\ s3[id].Body \in {json_dumps_indent(recent_tracks[p], 2),
                                         json_dumps_indent(recent_tracks[q], 2)}
                     /\ (lastRun.ok /\ lastRun.date = d) =>
                           s3[id].Body = json_dumps_indent(lastRun.batch, 2)
                     /\ (~(lastRun.ok /\ lastRun.date = d) /\ prevRun.ok /\ prevRun.date = d) =>
                           s3[id].Body = json_dumps_indent(prevRun.batch, 2)

\* both runs had fetched before either put; the run that fetched Batch2 put
\* first and the run that fetched BatchEmpty last
C11_Witness ==
    \E p, q \in Procs :
        /\ BothSucceeded(p, q)
        /\ recent_tracks[p] = Batch2 /\ recent_tracks[q] = BatchEmpty
        /\ prevRun = [ok |-> TRUE, date |-> today_date[p], batch |-> Batch2]
        /\ lastRun = [ok |-> TRUE, date |-> today_date[q], batch |-> BatchEmpty]
        /\ \A id \in DayObjects(today_date[p]) :
              s3[id].Body = "{\n  \"items\": [],\n  \"limit\": 50\n}"

====
